---------------------------- MODULE Spec2Model ----------------------------
(***************************************************************************)
(* Model of the bike-hire recommender: the TfL adapter with its in-memory  *)
(* TTL cache (backend/app/adapters/tfl.py), the scoring functions          *)
(* (backend/app/services/scoring.py) and the /recommend handler            *)
(* (backend/app/routes/recommend.py).                                      *)
(*                                                                         *)
(* Conventions.                                                            *)
(*  - A Python Optional is a sequence: <<>> is None, <<v>> is the value v. *)
(*  - A Python str that is searched (commonName, a name query) is a        *)
(*    sequence of one-character strings; a BikePoint id is a TLA+ string.  *)
(*  - All stations and points lie on one meridian (lon = 0).  There        *)
(*    haversine_m is exactly EARTH_R * |dlat|; a latitude is given as the  *)
(*    arc length EARTH_R * lat in centimetres, so a distance is an integer *)
(*    number of centimetres.                                               *)
(*  - A float in [0,1] (a ratio, a sigmoid value) is an integer number of  *)
(*    1/Scale; a score is an integer number of 1/(100*Scale).              *)
(***************************************************************************)
EXTENDS Integers, Sequences, FiniteSets, TLC

VARIABLES upstream, cache, now, reqs, call

vars == <<upstream, cache, now, reqs, call>>

None == <<>>

Some(v) == <<v>>

\* Python truthiness of an Optional[str] given as a TLA+ string
\* ("if station_id:"): None and "" are falsy.
TruthyId(x) == x # None /\ x[1] # ""

\* Python truthiness of an Optional[str] given as a character sequence
\* ("if station_name_q:"): None and "" are falsy, " " is truthy.
TruthyStr(x) == x # None /\ Len(x[1]) > 0

----------------------------------------------------------------------------
(* Bounds and program constants                                            *)

\* longest catalog the upstream serves
MaxStations == 3

\* the clock stops at MaxTime seconds
MaxTime == 60

\* seconds added by one step of the clock
TickStep == 15

\* number of concurrent requests of the server specification
NumRequests == 2

\* fixed-point denominators: units per 1.0 of a ratio, centimetres per metre
Scale == 10 ^ 6

CmPerM == 10 ^ 2

CACHE_TTL_S == 30

DEST_STATION_RADIUS_M == 450

ORIGIN_SEARCH_RADIUS_M == 800

LIMIT_MIN == 1

LIMIT_MAX == 10

LIMIT_DEFAULT == 3

----------------------------------------------------------------------------
(* str methods used by the adapter                                         *)

\* str.lower() on the alphabet of the model
LowerChar(c) ==
    CASE c = "A" -> "a"
      [] c = "B" -> "b"
      [] c = "C" -> "c"
      [] OTHER -> c

Lower(s) == [i \in 1..Len(s) |-> LowerChar(s[i])]

RECURSIVE LStrip(_)
LStrip(s) == IF s # <<>> /\ Head(s) = " " THEN LStrip(Tail(s)) ELSE s

RECURSIVE RStrip(_)
RStrip(s) ==
    IF s # <<>> /\ s[Len(s)] = " " THEN RStrip(SubSeq(s, 1, Len(s) - 1)) ELSE s

\* str.strip()
Strip(s) == RStrip(LStrip(s))

\* "sub in s" for Python strings
Contains(sub, s) ==
    \E i \in 0..(Len(s) - Len(sub)) : SubSeq(s, i + 1, i + Len(sub)) = sub

----------------------------------------------------------------------------
(* backend/app/adapters/tfl.py                                             *)

\* int(props.get(k, 0) or 0): a missing property counts as 0
IntOr0(v) == IF v = None THEN 0 ELSE v[1]

normalize_station(bp) ==
    [id              |-> bp.id,
     name            |-> bp.commonName,
     lat             |-> bp.lat,
     lon             |-> bp.lon,
     capacity        |-> IntOr0(bp.NbDocks),
     bikes_available |-> IntOr0(bp.NbBikes),
     docks_available |-> IntOr0(bp.NbEmptyDocks)]

\* fetch_normalized_stations, after fetch_all_bikepoints returned raw
normalize_all(raw) == [i \in 1..Len(raw) |-> normalize_station(raw[i])]

\* _cache_get: the cached value if it is younger than the TTL, else None
cache_get(c, t) ==
    IF c # None /\ t - c[1].ts < CACHE_TTL_S THEN Some(c[1].value) ELSE None

\* _cache_set
cache_set(t, value) == Some([ts |-> t, value |-> value])

RECURSIVE FirstWithId(_, _)
FirstWithId(data, station_id) ==
    IF data = <<>> THEN None
    ELSE IF Head(data).id = station_id THEN Some(normalize_station(Head(data)))
         ELSE FirstWithId(Tail(data), station_id)

\* get_station_by_id, after fetch_all_bikepoints returned data
get_station_by_id(data, station_id) == FirstWithId(data, station_id)

\* (bp.get("commonName") or "").lower()
NameLower(bp) == IF bp.commonName = None THEN <<>> ELSE Lower(bp.commonName[1])

\* len(s.get("name") or "")
NameLen(s) == IF s.name = None THEN 0 ELSE Len(s.name[1])

\* the query as find_stations_by_name compares it
QueryKey(query) == Lower(Strip(query))

\* whether find_stations_by_name appends bp to hits
IsHit(bp, ql) == ql # <<>> /\ Contains(ql, NameLower(bp))

RECURSIVE Hits(_, _)
Hits(data, ql) ==
    IF data = <<>> THEN <<>>
    ELSE (IF IsHit(Head(data), ql) THEN <<normalize_station(Head(data))>> ELSE <<>>)
         \o Hits(Tail(data), ql)

RECURSIVE InsertHit_Unstable(_, _)
\* InsertHit of a sort that is not stable: s goes before the hits whose key
\* equals its key
InsertHit_Unstable(s, sorted) ==
    IF sorted = <<>> THEN <<s>>
    ELSE IF NameLen(Head(sorted)) < NameLen(s)
         THEN <<Head(sorted)>> \o InsertHit_Unstable(s, Tail(sorted))
         ELSE <<s>> \o sorted

RECURSIVE InsertHit(_, _)
\* a stable sort puts s after every hit whose key is <= its key
InsertHit(s, sorted) ==
    IF sorted = <<>> THEN <<s>>
    ELSE IF NameLen(Head(sorted)) <= NameLen(s)
         THEN <<Head(sorted)>> \o InsertHit(s, Tail(sorted))
         ELSE <<s>> \o sorted

RECURSIVE SortHitsFrom(_, _)
SortHitsFrom(rest, sorted) ==
    IF rest = <<>> THEN sorted
    ELSE SortHitsFrom(Tail(rest), InsertHit(Head(rest), sorted))

\* SortHits with the sort left out: the hits stay in catalog order
SortHits_Unsorted(hits) == hits

\* hits.sort(key=lambda s: len(s.get("name") or "")): stable, ascending
SortHits(hits) == SortHitsFrom(hits, <<>>)

\* find_stations_by_name, after fetch_all_bikepoints returned data
find_stations_by_name(data, query, limit) ==
    LET hits == SortHits(Hits(data, QueryKey(query)))
    IN  SubSeq(hits, 1, IF limit < Len(hits) THEN limit ELSE Len(hits))

\* get_station_by_name
get_station_by_name(data, query) ==
    LET matches == find_stations_by_name(data, query, 1)
    IN  IF matches # <<>> THEN Some(matches[1]) ELSE None

----------------------------------------------------------------------------
(* backend/app/services/scoring.py                                         *)

Abs(x) == IF x < 0 THEN -x ELSE x

Min(a, b) == IF a < b THEN a ELSE b

Max(a, b) == IF a > b THEN a ELSE b

\* haversine_m in centimetres.  With dlon = 0 the code computes
\* a = sin(dlat/2)^2 and 2 * EARTH_R * asin(sqrt(a)) = EARTH_R * |dlat|,
\* the difference of the two arc lengths.
haversine_m(lat1, lon1, lat2, lon2) == Abs(lat2 - lat1)

\* walking speed of score_station_candidate, metres per minute
WALK_M_PER_MIN == 80

\* sigmoid_minutes: 1.0 / (1.0 + exp((m - 6) / 1.5)) in 1/Scale, rounded to
\* the nearest unit; m is in 1/(WALK_M_PER_MIN * CmPerM) minutes, so that a
\* walk of d centimetres takes m = d.
sigmoid_minutes(m) ==
    CASE m = 0     -> 982014
      [] m = 4     -> 982008
      [] m = 8     -> 982002
      [] m = 6 * WALK_M_PER_MIN * CmPerM -> 500000
      [] m = 79992 -> 65010
      [] m = 79996 -> 64989
      [] m = 80000 -> 64969
      [] m = 80004 -> 64949
      [] m = 80008 -> 64929

\* availability_ratio, in 1/Scale
availability_ratio(bikes, capacity) ==
    IF capacity <= 0 THEN 0
    ELSE Max(0, Min(Scale, (bikes * Scale) \div capacity))

\* dock_ratio, in 1/Scale
dock_ratio(docks, capacity) ==
    IF capacity <= 0 THEN 0
    ELSE Max(0, Min(Scale, (docks * Scale) \div capacity))

RECURSIVE MaxOf(_)
\* max(scores) of a non-empty list
MaxOf(scores) ==
    IF Len(scores) = 1 THEN scores[1]
    ELSE Max(Head(scores), MaxOf(Tail(scores)))

\* r = radius_m or settings.DEST_STATION_RADIUS_M, in metres
EffectiveRadius(radius_m) ==
    IF radius_m = None \/ radius_m[1] = 0
    THEN DEST_STATION_RADIUS_M
    ELSE radius_m[1]

\* whether best_dock_score_near_dest appends the station's ratio
InDestRadius(s, dest_lat, dest_lon, r) ==
    haversine_m(dest_lat, dest_lon, s.lat, s.lon) <= r * CmPerM

RECURSIVE DockScores(_, _, _, _)
DockScores(stations, dest_lat, dest_lon, r) ==
    IF stations = <<>> THEN <<>>
    ELSE (IF InDestRadius(Head(stations), dest_lat, dest_lon, r)
          THEN <<dock_ratio(Head(stations).docks_available,
                            Head(stations).capacity)>>
          ELSE <<>>)
         \o DockScores(Tail(stations), dest_lat, dest_lon, r)

best_dock_score_near_dest(stations, dest_lat, dest_lon, radius_m) ==
    LET scores == DockScores(stations, dest_lat, dest_lon,
                             EffectiveRadius(radius_m))
    IN  IF scores # <<>> THEN MaxOf(scores) ELSE 0

\* the weights of score_station_candidate, in hundredths
W_PROX == 35

W_AVAIL == 35

W_DEST == 30

\* score_station_candidate, in 1/(100*Scale)
score_station_candidate(station, origin_lat, origin_lon, dest_lat, dest_lon, dest_dock_score) ==
    LET walk_m    == haversine_m(origin_lat, origin_lon, station.lat, station.lon)
        walk_min  == walk_m
        proximity == sigmoid_minutes(walk_min)
        avail     == availability_ratio(station.bikes_available, station.capacity)
    IN  W_PROX * proximity + W_AVAIL * avail + W_DEST * dest_dock_score

\* round(x, ndigits) on a fixed-point number: x in units u, the result in
\* units unit * u, ties to even
RoundHalfEven(x, unit) ==
    LET q == x \div unit
        r == x % unit
    IN  IF 2 * r > unit \/ (2 * r = unit /\ q % 2 = 1) THEN q + 1 ELSE q

\* round(dist_m, 1): centimetres to tenths of a metre
RoundDistance(dist_cm) == RoundHalfEven(dist_cm, CmPerM \div 10)

\* round(score, 4): 1/(100*Scale) to 1/10000
RoundScore(score) == RoundHalfEven(score, (100 * Scale) \div 10000)

----------------------------------------------------------------------------
(* backend/app/routes/recommend.py                                         *)

\* ResolveBranch with the name query tested by "is not None" instead of by
\* truthiness
ResolveBranch_NameNotNone(lat, lon, station_id, station_name_q) ==
    IF TruthyId(station_id) THEN "id"
    ELSE IF lat # None /\ lon # None THEN "coords"
    ELSE IF station_name_q # None THEN "name"
    ELSE "invalid"

\* ResolveBranch with the tests of lines 38 and 45 in the other order
ResolveBranch_CoordsFirst(lat, lon, station_id, station_name_q) ==
    IF lat # None /\ lon # None THEN "coords"
    ELSE IF TruthyId(station_id) THEN "id"
    ELSE IF TruthyStr(station_name_q) THEN "name"
    ELSE "invalid"

\* The branch _resolve_point takes: the tests of lines 38, 45 and 49, in
\* that order, and the raise of line 55 when none passes.
ResolveBranch(lat, lon, station_id, station_name_q) ==
    IF TruthyId(station_id) THEN "id"
    ELSE IF lat # None /\ lon # None THEN "coords"
    ELSE IF TruthyStr(station_name_q) THEN "name"
    ELSE "invalid"

\* has_dest = any([dest_station_id, dest_q, dest_lat is not None, ...])
HasDest(in) ==
    \/ TruthyId(in.dest_station_id)
    \/ TruthyStr(in.dest_q)
    \/ in.dest_lat # None
    \/ in.dest_lon # None

\* the arguments recommend passes to _resolve_point for a role
RoleArgs(in, role) ==
    IF role = "origin"
    THEN [lat |-> in.origin_lat, lon |-> in.origin_lon,
          station_id |-> in.origin_station_id, station_name_q |-> in.origin_q]
    ELSE [lat |-> in.dest_lat, lon |-> in.dest_lon,
          station_id |-> in.dest_station_id, station_name_q |-> in.dest_q]

RoleBranch(in, role) ==
    LET a == RoleArgs(in, role)
    IN  ResolveBranch(a.lat, a.lon, a.station_id, a.station_name_q)

\* raise HTTPException(status, detail): the request ends with no results
HttpError(rq, status, detail) ==
    [rq EXCEPT !.pc = "done",
               !.response = Some([status |-> status, detail |-> detail,
                                  origin |-> None, count |-> 0,
                                  results |-> <<>>])]

\* the candidate recommend appends for station s (lines 138-150)
Candidate(s, dist_m, score) ==
    [station_id      |-> s.id,
     name            |-> s.name,
     lat             |-> s.lat,
     lon             |-> s.lon,
     bikes_available |-> s.bikes_available,
     docks_available |-> s.docks_available,
     capacity        |-> s.capacity,
     distance_m      |-> RoundDistance(dist_m),
     score           |-> RoundScore(score)]

\* IsCandidate with the radius excluded: < for <=
IsCandidate_Strict(s, dist_m) ==
    dist_m < ORIGIN_SEARCH_RADIUS_M * CmPerM /\ s.capacity > 0

\* the test of line 129
IsCandidate(s, dist_m) ==
    dist_m <= ORIGIN_SEARCH_RADIUS_M * CmPerM /\ s.capacity > 0

RECURSIVE select_candidates(_, _, _, _, _, _)
\* the loop of lines 126-150
select_candidates(stations, o_lat, o_lon, d_lat, d_lon, dest_dock_score) ==
    IF stations = <<>> THEN <<>>
    ELSE LET s      == Head(stations)
             dist_m == haversine_m(o_lat, o_lon, s.lat, s.lon)
         IN  (IF IsCandidate(s, dist_m)
              THEN <<Candidate(s, dist_m,
                       score_station_candidate(s, o_lat, o_lon, d_lat, d_lon,
                                               dest_dock_score))>>
              ELSE <<>>)
             \o select_candidates(Tail(stations), o_lat, o_lon, d_lat, d_lon,
                                  dest_dock_score)

\* the key of the sort of line 152
SortKey(x) == x.score

RECURSIVE InsertCandidate_Unstable(_, _)
\* InsertCandidate of a sort that is not stable: x goes before the
\* candidates whose key equals its key
InsertCandidate_Unstable(x, sorted) ==
    IF sorted = <<>> THEN <<x>>
    ELSE IF SortKey(Head(sorted)) > SortKey(x)
         THEN <<Head(sorted)>> \o InsertCandidate_Unstable(x, Tail(sorted))
         ELSE <<x>> \o sorted

RECURSIVE InsertCandidate(_, _)
\* a stable sort with reverse=True puts x after every candidate whose key
\* is >= its key
InsertCandidate(x, sorted) ==
    IF sorted = <<>> THEN <<x>>
    ELSE IF SortKey(Head(sorted)) >= SortKey(x)
         THEN <<Head(sorted)>> \o InsertCandidate(x, Tail(sorted))
         ELSE <<x>> \o sorted

RECURSIVE SortCandidatesFrom(_, _)
SortCandidatesFrom(rest, sorted) ==
    IF rest = <<>> THEN sorted
    ELSE SortCandidatesFrom(Tail(rest), InsertCandidate(Head(rest), sorted))

\* candidates.sort(key=lambda x: x["score"], reverse=True)
sort_candidates(candidates) == SortCandidatesFrom(candidates, <<>>)

\* "count": min(len(candidates), limit)
ResponseCount(candidates, limit) == Min(Len(candidates), limit)

\* candidates[:limit]
ResponseResults(candidates, limit) ==
    SubSeq(candidates, 1, Min(Len(candidates), limit))

\* lines 125-160: filter, score, sort and shape the response
Finish(rq) ==
    LET candidates == sort_candidates(
            select_candidates(rq.stations, rq.o.lat, rq.o.lon,
                              rq.d.lat, rq.d.lon, rq.dest_dock_score))
    IN  [rq EXCEPT
           !.pc = "done",
           !.candidates = candidates,
           !.response = Some(
               [status  |-> 200,
                detail  |-> "",
                origin  |-> Some([lat  |-> rq.o.lat, lon |-> rq.o.lon,
                                  name |-> IF TruthyStr(rq.o.name)
                                           THEN rq.o.name ELSE None]),
                count   |-> ResponseCount(candidates, rq.in.limit),
                results |-> ResponseResults(candidates, rq.in.limit)])]

\* lines 112-123 once the destination is known (or there is none)
WithDest(rq, point, has_dest) ==
    Finish([rq EXCEPT
              !.d = [lat |-> point.lat, lon |-> point.lon],
              !.dest_dock_score =
                  IF has_dest
                  THEN best_dock_score_near_dest(rq.stations, point.lat,
                                                 point.lon, None)
                  ELSE 0])

\* lines 108-123 up to the fetch inside _resolve_point(destination)
BeginDest(rq) ==
    IF ~HasDest(rq.in) THEN WithDest(rq, rq.o, FALSE)
    ELSE LET branch == RoleBranch(rq.in, "destination")
         IN  CASE branch \in {"id", "name"} -> [rq EXCEPT !.pc = "destination"]
               [] branch = "coords" ->
                    WithDest(rq, [lat |-> rq.in.dest_lat[1],
                                  lon |-> rq.in.dest_lon[1]], TRUE)
               [] branch = "invalid" ->
                    HttpError(rq, 400,
                      "destination: provide either station_id OR name query OR lat & lon")

\* lines 100-106 once the origin is known
WithOrigin(rq, point) == BeginDest([rq EXCEPT !.o = point])

\* lines 99-106 up to the fetch inside _resolve_point(origin)
BeginOrigin(rq) ==
    LET branch == RoleBranch(rq.in, "origin")
    IN  CASE branch \in {"id", "name"} -> [rq EXCEPT !.pc = "origin"]
          [] branch = "coords" ->
               WithOrigin(rq, [lat  |-> rq.in.origin_lat[1],
                               lon  |-> rq.in.origin_lon[1],
                               name |-> None])
          [] branch = "invalid" ->
               HttpError(rq, 400,
                 "origin: provide either station_id OR name query OR lat & lon")

\* lines 95-97: the station list of the request, 503 when it is empty
AfterStations(rq, data) ==
    LET stations == normalize_all(data)
    IN  IF stations = <<>>
        THEN HttpError(rq, 503, "No TfL station data available")
        ELSE BeginOrigin([rq EXCEPT !.stations = stations])

\* _resolve_point from the data its own fetch_all_bikepoints returned:
\* the station of lines 39 or 50, None when nothing matches
Lookup(in, role, data) ==
    LET a == RoleArgs(in, role)
    IN  IF RoleBranch(in, role) = "id"
        THEN get_station_by_id(data, a.station_id[1])
        ELSE get_station_by_name(data, a.station_name_q[1])

\* lines 40-42 and 51-53
NotFoundDetail(in, role) ==
    IF RoleBranch(in, role) = "id"
    THEN role \o ": BikePoint ID not found"
    ELSE role \o ": no station matched name query"

AfterLookup(rq, data) ==
    LET st == Lookup(rq.in, rq.pc, data)
    IN  IF st = None THEN HttpError(rq, 404, NotFoundDetail(rq.in, rq.pc))
        ELSE IF rq.pc = "origin"
        THEN WithOrigin(rq, [lat |-> st[1].lat, lon |-> st[1].lon,
                             name |-> st[1].name])
        ELSE WithDest(rq, [lat |-> st[1].lat, lon |-> st[1].lon], TRUE)

\* the handler from the return of a fetch_all_bikepoints call to its next
\* call of it, or to its end
AfterData(rq, data) ==
    IF rq.pc = "stations" THEN AfterStations(rq, data) ELSE AfterLookup(rq, data)

\* a request as recommend starts on it
NewRequest(in) ==
    [in |-> in, pc |-> "stations", waiting |-> FALSE, stations |-> <<>>,
     o |-> [lat |-> 0, lon |-> 0, name |-> None],
     d |-> [lat |-> 0, lon |-> 0],
     dest_dock_score |-> 0, candidates |-> <<>>, response |-> None,
     fetched |-> <<>>]

----------------------------------------------------------------------------
(* The data the upstream serves and the requests the clients send          *)

\* a raw BikePoint of the TfL feed; its additionalProperties are the three
\* Optional counters
BikePoint(i, commonName, lat, NbDocks, NbBikes, NbEmptyDocks) ==
    [id |-> "BikePoints_" \o ToString(i), commonName |-> commonName,
     lat |-> lat, lon |-> 0,
     NbDocks |-> NbDocks, NbBikes |-> NbBikes, NbEmptyDocks |-> NbEmptyDocks]

\* what a station kind says apart from the id
Kind(commonName, lat, NbDocks, NbBikes, NbEmptyDocks) ==
    [commonName |-> commonName, lat |-> lat,
     NbDocks |-> NbDocks, NbBikes |-> NbBikes, NbEmptyDocks |-> NbEmptyDocks]

\* the catalogs of at most MaxStations stations of the given kinds; the
\* i-th station has the id BikePoints_i, so ids are unique
CatalogsOf(kinds) ==
    UNION {
      { [i \in 1..n |->
           BikePoint(i, f[i].commonName, f[i].lat, f[i].NbDocks, f[i].NbBikes,
                     f[i].NbEmptyDocks)] : f \in [1..n -> kinds] }
      : n \in 0..MaxStations }

\* kinds that differ in name and place: the same name at two places, a name
\* in the other letter case, a name with a leading blank that contains the
\* first, and no name
ResolveKinds ==
    { Kind(Some(<<"a", "b">>), 0, Some(10), Some(5), Some(5)),
      Kind(Some(<<"a", "b">>), 4, Some(10), Some(5), Some(5)),
      Kind(Some(<<"A", "B">>), 80000, Some(10), Some(5), Some(5)),
      Kind(Some(<<" ", "a", "b">>), 80004, Some(10), Some(5), Some(5)),
      Kind(None, 4, Some(10), Some(5), Some(5)) }

\* kinds that differ in place, capacity and availability: two stations
\* 4 cm apart, one at the origin radius and one 4 cm beyond it, one with
\* no NbDocks property, one with more bikes than docks
RankKinds ==
    { Kind(Some(<<"a">>), 0, Some(10), Some(5), Some(5)),
      Kind(Some(<<"a">>), 4, Some(10), Some(5), Some(8)),
      Kind(Some(<<"a">>), 80000, Some(10), Some(10), Some(2)),
      Kind(Some(<<"a">>), 80004, Some(10), Some(5), Some(5)),
      Kind(Some(<<"a">>), 0, None, Some(0), Some(0)),
      Kind(Some(<<"a">>), 4, Some(4), Some(6), Some(1)) }

\* the query parameters of a request
Inputs(o_id, o_q, o_lat, o_lon, d_id, d_q, d_lat, d_lon, limit) ==
    [origin_station_id |-> o_id, origin_q |-> o_q,
     origin_lat |-> o_lat, origin_lon |-> o_lon,
     dest_station_id |-> d_id, dest_q |-> d_q,
     dest_lat |-> d_lat, dest_lon |-> d_lon, limit |-> limit]

IdValues == {None, Some(""), Some("BikePoints_2")}

QueryValues ==
    {None, Some(<<>>), Some(<<"a", "b">>), Some(<<"B">>), Some(<<" ", "a", "b">>)}

LatValues == {None, Some(0)}

LonValues == {None, Some(0)}

\* every combination of the four locator fields for the origin with no
\* destination, and for the destination with the origin at (0, 0)
ResolveInputs ==
    { Inputs(i, q, lat, lon, None, None, None, None, LIMIT_DEFAULT) :
        i \in IdValues, q \in QueryValues, lat \in LatValues, lon \in LonValues }
    \cup
    { Inputs(None, None, Some(0), Some(0), i, q, lat, lon, LIMIT_DEFAULT) :
        i \in IdValues, q \in QueryValues, lat \in LatValues, lon \in LonValues }

\* the origin by coordinates or by id, the destination absent, by
\* coordinates (35000: 450 m from the station at 80000) or by id, and
\* every limit the route accepts
RankInputs ==
    { Inputs(o[1], None, o[2], o[3], d[1], None, d[2], d[3], limit) :
        o \in { <<None, Some(0), Some(0)>>, <<None, Some(4), Some(0)>>,
                <<Some("BikePoints_1"), None, None>> },
        d \in { <<None, None, None>>, <<None, Some(35000), Some(0)>>,
                <<Some("BikePoints_2"), None, None>> },
        limit \in LIMIT_MIN..LIMIT_MAX }

\* the upstream while it answers, and while it fails
Serving(data) == [ok |-> TRUE, data |-> data]

Failing == [ok |-> FALSE, data |-> <<>>]

CatalogTwo ==
    << BikePoint(1, Some(<<"a", "b">>), 0, Some(10), Some(5), Some(5)),
       BikePoint(2, Some(<<"b">>), 4, Some(10), Some(5), Some(8)) >>

CatalogOne ==
    << BikePoint(1, Some(<<"a", "b">>), 0, Some(10), Some(5), Some(5)) >>

\* the states of the upstream of the server specification: two stations,
\* the second one removed, no station at all, and an error status
UpstreamStates ==
    { Serving(CatalogTwo), Serving(CatalogOne), Serving(<<>>), Failing }

ServerInputs ==
    { Inputs(o[1], o[2], o[3], o[4], d, None, None, None, LIMIT_DEFAULT) :
        o \in { <<Some("BikePoints_2"), None, None, None>>,
                <<None, None, Some(0), Some(0)>>,
                <<None, Some(<<"b">>), None, None>> },
        d \in { None, Some("BikePoints_1") } }

----------------------------------------------------------------------------
(* The server: requests run concurrently between their awaits              *)

Requests == DOMAIN reqs

\* the result of a fetch_all_bikepoints call, as the request saw it
Saw(rq, result) == [rq EXCEPT !.waiting = FALSE, !.fetched = Append(@, result)]

\* fetch_all_bikepoints, lines 41-43: the cache answers
FetchHit(r) ==
    LET cached == cache_get(cache, now)
    IN  /\ reqs[r].pc # "done"
        /\ ~reqs[r].waiting
        /\ cached # None
        /\ reqs' = [reqs EXCEPT
                      ![r] = AfterData(Saw(@, Serving(cached[1])), cached[1])]
        /\ UNCHANGED <<upstream, cache, now, call>>

\* fetch_all_bikepoints, lines 45-47: no fresh entry, the GET is sent and
\* the coroutine is suspended
FetchMiss(r) ==
    /\ reqs[r].pc # "done"
    /\ ~reqs[r].waiting
    /\ cache_get(cache, now) = None
    /\ reqs' = [reqs EXCEPT ![r].waiting = TRUE]
    /\ UNCHANGED <<upstream, cache, now, call>>

\* fetch_all_bikepoints, lines 48-52: the upstream answers 200
HttpOk(r) ==
    /\ reqs[r].waiting
    /\ upstream.ok
    /\ cache' = cache_set(now, upstream.data)
    /\ reqs' = [reqs EXCEPT
                  ![r] = AfterData(Saw(@, upstream), upstream.data)]
    /\ UNCHANGED <<upstream, now, call>>

\* r.raise_for_status() raises httpx.HTTPStatusError; nothing in recommend
\* or in the adapter catches it, and the framework answers 500
Unhandled(rq) == HttpError(rq, 500, "Internal Server Error")

\* fetch_all_bikepoints, line 48: the upstream answers with an error status
HttpFail(r) ==
    /\ reqs[r].waiting
    /\ ~upstream.ok
    /\ reqs' = [reqs EXCEPT ![r] = Unhandled(Saw(@, upstream))]
    /\ UNCHANGED <<upstream, cache, now, call>>

\* time.time() advances
Tick ==
    /\ now + TickStep <= MaxTime
    /\ now' = now + TickStep
    /\ UNCHANGED <<upstream, cache, reqs, call>>

\* the feed changes, or starts or stops failing
UpstreamChange ==
    /\ upstream' \in UpstreamStates \ {upstream}
    /\ UNCHANGED <<cache, now, reqs, call>>

Init ==
    /\ upstream \in UpstreamStates
    /\ cache = None
    /\ now = 0
    /\ reqs \in [1..NumRequests -> {NewRequest(in) : in \in ServerInputs}]
    /\ call = None

Next ==
    \/ \E r \in Requests : FetchHit(r)
    \/ \E r \in Requests : FetchMiss(r)
    \/ \E r \in Requests : HttpOk(r)
    \/ \E r \in Requests : HttpFail(r)
    \/ Tick
    \/ UpstreamChange

Spec == Init /\ [][Next]_vars

----------------------------------------------------------------------------
(* One request against a feed that does not change                         *)

NextOne ==
    \/ \E r \in Requests : FetchHit(r)
    \/ \E r \in Requests : FetchMiss(r)
    \/ \E r \in Requests : HttpOk(r)

InitResolve ==
    /\ upstream \in {Serving(c) : c \in CatalogsOf(ResolveKinds)}
    /\ cache = None
    /\ now = 0
    /\ reqs \in [{1} -> {NewRequest(in) : in \in ResolveInputs}]
    /\ call = None

SpecResolve == InitResolve /\ [][NextOne]_vars

InitRank ==
    /\ upstream \in {Serving(c) : c \in CatalogsOf(RankKinds)}
    /\ cache = None
    /\ now = 0
    /\ reqs \in [{1} -> {NewRequest(in) : in \in RankInputs}]
    /\ call = None

SpecRank == InitRank /\ [][NextOne]_vars

----------------------------------------------------------------------------
(* best_dock_score_near_dest called with a radius                          *)

\* the radius_m a caller passes: the default, 0, 450 and 800 metres
RadiusValues == {None, Some(0), Some(DEST_STATION_RADIUS_M), Some(ORIGIN_SEARCH_RADIUS_M)}

DestLats == {0, 35000}

CallBestDock(dest_lat, radius_m) ==
    /\ upstream.ok
    /\ LET stations == normalize_all(upstream.data)
       IN  call' = Some([stations |-> stations, dest_lat |-> dest_lat,
                         dest_lon |-> 0, radius_m |-> radius_m,
                         result |-> best_dock_score_near_dest(
                                        stations, dest_lat, 0, radius_m)])
    /\ UNCHANGED <<upstream, cache, now, reqs>>

InitDock ==
    /\ upstream \in {Serving(c) : c \in CatalogsOf(RankKinds)}
    /\ cache = None
    /\ now = 0
    /\ reqs = <<>>
    /\ call = None

NextDock == \E dest_lat \in DestLats, radius_m \in RadiusValues : CallBestDock(dest_lat, radius_m)

SpecDock == InitDock /\ [][NextDock]_vars

----------------------------------------------------------------------------
(* Properties                                                              *)

Done(r) == reqs[r].pc = "done"

Response(r) == reqs[r].response[1]

\* the locator fields of a role, read off the request
Args(r, role) == RoleArgs(reqs[r].in, role)

\* the locator styles of a role that carry a value
StyleCount(a) ==
    (IF a.station_id # None /\ a.station_id[1] # "" THEN 1 ELSE 0)
    + (IF a.lat # None /\ a.lon # None THEN 1 ELSE 0)
    + (IF a.station_name_q # None /\ a.station_name_q[1] # <<>> THEN 1 ELSE 0)

AnyField(a) ==
    \/ a.station_id # None /\ a.station_id[1] # ""
    \/ a.station_name_q # None /\ a.station_name_q[1] # <<>>
    \/ a.lat # None
    \/ a.lon # None

InvalidDetail(role) ==
    role \o ": provide either station_id OR name query OR lat & lon"

OriginDetails ==
    { InvalidDetail("origin"), "origin: BikePoint ID not found",
      "origin: no station matched name query" }

\* the request got as far as resolving the role
Attempted(r, role) ==
    /\ Done(r)
    /\ reqs[r].stations # <<>>
    /\ role = "destination" =>
         /\ Response(r).detail \notin OriginDetails
         /\ AnyField(Args(r, "destination"))

Rejected(r, role) ==
    Response(r).status = 400 /\ Response(r).detail = InvalidDetail(role)

Roles == {"origin", "destination"}

\* C1, as claimed: resolving a role fails with InvalidInput (400) whenever
\* the caller supplied no locator style or more than one for it.
C1_RejectedUnlessOneStyle ==
    \A r \in Requests, role \in Roles :
        Attempted(r, role) /\ StyleCount(Args(r, role)) # 1 => Rejected(r, role)

\* C1, amended: resolving a role fails with InvalidInput (400) exactly when
\* no locator style is supplied for it; a role given two or three styles is
\* resolved, never rejected as ambiguous.
C1_RejectedIffNoStyle ==
    \A r \in Requests, role \in Roles :
        Attempted(r, role) =>
            (Rejected(r, role) <=> StyleCount(Args(r, role)) = 0)

\* C1, its case: a role given two or three styles was resolved and answered 200.
C1_TwoStylesResolved ==
    \E r \in Requests, role \in Roles :
        /\ Attempted(r, role)
        /\ StyleCount(Args(r, role)) >= 2
        /\ Response(r).status = 200

\* what the precedence of C2 makes of the locator fields a of a role
Expected(a, role, data) ==
    LET found(st) == [status |-> 200, detail |-> "", lat |-> st.lat,
                      lon |-> st.lon, name |-> st.name]
        failed(status, detail) == [status |-> status, detail |-> detail,
                                   lat |-> 0, lon |-> 0, name |-> None]
    IN  IF a.station_id # None /\ a.station_id[1] # ""
        THEN LET st == get_station_by_id(data, a.station_id[1])
             IN  IF st = None
                 THEN failed(404, role \o ": BikePoint ID not found")
                 ELSE found(st[1])
        ELSE IF a.lat # None /\ a.lon # None
        THEN found([lat |-> a.lat[1], lon |-> a.lon[1], name |-> None])
        ELSE IF a.station_name_q # None /\ a.station_name_q[1] # <<>>
        THEN LET st == get_station_by_name(data, a.station_name_q[1])
             IN  IF st = None
                 THEN failed(404, role \o ": no station matched name query")
                 ELSE found(st[1])
        ELSE failed(400, InvalidDetail(role))

\* C2: a role is resolved by its station id if one is given, else by its
\* coordinates if both are given, else by its name query if one is given,
\* and is rejected (400) only when none is; the fields of lower priority do
\* not change the point.
C2_Precedence ==
    \A r \in Requests :
        /\ Attempted(r, "origin") =>
             LET e == Expected(Args(r, "origin"), "origin", upstream.data)
             IN  IF e.status # 200
                 THEN Response(r).status = e.status /\ Response(r).detail = e.detail
                 ELSE /\ reqs[r].o = [lat |-> e.lat, lon |-> e.lon, name |-> e.name]
                      /\ Response(r).detail \notin OriginDetails
        /\ Attempted(r, "destination") =>
             LET e == Expected(Args(r, "destination"), "destination", upstream.data)
             IN  IF e.status # 200
                 THEN Response(r).status = e.status /\ Response(r).detail = e.detail
                 ELSE /\ reqs[r].d = [lat |-> e.lat, lon |-> e.lon]
                      /\ Response(r).status = 200

\* C2, its case: the origin given all three styles was resolved to the
\* station of its id, away from the coordinates given.
C2_IdBeatsCoordsAndName ==
    \E r \in Requests :
        LET a == Args(r, "origin")
        IN  /\ Done(r)
            /\ Response(r).status = 200
            /\ StyleCount(a) = 3
            /\ reqs[r].o.lat # a.lat[1]
            /\ reqs[r].o.name # None

\* the role is resolved by its name query: no id, not both coordinates
UsesName(a) ==
    /\ ~(a.station_id # None /\ a.station_id[1] # "")
    /\ ~(a.lat # None /\ a.lon # None)
    /\ a.station_name_q # None /\ a.station_name_q[1] # <<>>

NameOf(bp) == IF bp.commonName = None THEN <<>> ELSE bp.commonName[1]

\* the stations whose name contains key, letter case ignored
Matches(data, key) ==
    { i \in 1..Len(data) : key # <<>> /\ Contains(key, Lower(NameOf(data[i]))) }

\* the match with the shortest name, the first of them in the catalog
Best(data, H) ==
    CHOOSE i \in H :
        \A j \in H :
            \/ Len(NameOf(data[i])) < Len(NameOf(data[j]))
            \/ Len(NameOf(data[i])) = Len(NameOf(data[j])) /\ i <= j

\* the point the request resolved the role to, and whether it did
ResolvedPoint(r, role) ==
    IF role = "origin"
    THEN <<reqs[r].o.lat, reqs[r].o.lon>>
    ELSE <<reqs[r].d.lat, reqs[r].d.lon>>

ResolvedOk(r, role) ==
    IF role = "origin"
    THEN Response(r).detail \notin OriginDetails
    ELSE Response(r).status = 200

\* a role resolved by name gets the best match of key, or NotFound (404)
\* naming the role when nothing matches
ResolvesToBest(r, role, key) ==
    LET data == upstream.data
        H    == Matches(data, key)
    IN  IF H = {}
        THEN /\ Response(r).status = 404
             /\ Response(r).detail = role \o ": no station matched name query"
        ELSE /\ ResolvedOk(r, role)
             /\ ResolvedPoint(r, role) =
                    <<data[Best(data, H)].lat, data[Best(data, H)].lon>>
             /\ role = "origin" => reqs[r].o.name = data[Best(data, H)].commonName

AskedByExactName(r, role, i) ==
    /\ Attempted(r, role)
    /\ UsesName(Args(r, role))
    /\ upstream.data[i].commonName = Args(r, role).station_name_q

\* the request resolved the role to the coordinates that a lookup of
\* station i by its id gives
SameAsById(r, role, i) ==
    LET st == get_station_by_id(upstream.data, upstream.data[i].id)
    IN  /\ ResolvedOk(r, role)
        /\ st # None
        /\ ResolvedPoint(r, role) = <<st[1].lat, st[1].lon>>

\* C7, as claimed: for every station of the catalog, a name query equal to
\* its exact name resolves to the coordinates its id resolves to.
C7_IdAndExactNameAgree ==
    \A r \in Requests, role \in Roles :
        \A i \in 1..Len(upstream.data) :
            AskedByExactName(r, role, i) => SameAsById(r, role, i)

\* C7, amended: ... provided the name has no leading or trailing whitespace
\* and no station earlier in the catalog has the same name, letter case
\* ignored; stations whose longer names contain the name do not matter.
C7_IdAndExactNameAgreeIfFirstOfName ==
    \A r \in Requests, role \in Roles :
        \A i \in 1..Len(upstream.data) :
            LET q == Args(r, role).station_name_q[1]
            IN  /\ AskedByExactName(r, role, i)
                /\ Strip(q) = q
                /\ \A j \in 1..(i - 1) :
                       Lower(NameOf(upstream.data[j])) # Lower(q)
                => SameAsById(r, role, i)

\* C7, its case: the second of three stations asked for by its name, the
\* first one's longer name containing it, the third one a namesake elsewhere.
C7_ContainedAndFollowedByNamesake ==
    \E r \in Requests :
        LET q    == Args(r, "origin").station_name_q[1]
            data == upstream.data
        IN  /\ Len(data) = 3
            /\ AskedByExactName(r, "origin", 2)
            /\ Strip(q) = q
            /\ Lower(NameOf(data[1])) # Lower(q)
            /\ Contains(Lower(q), Lower(NameOf(data[1])))
            /\ Lower(NameOf(data[3])) = Lower(q)
            /\ data[3].lat # data[2].lat
            /\ SameAsById(r, "origin", 2)

\* the request answered 200
Answered(r) == Done(r) /\ Response(r).status = 200

\* the distance of station i of the request's list to its origin
DistanceToOrigin(r, i) ==
    haversine_m(reqs[r].o.lat, reqs[r].o.lon,
                reqs[r].stations[i].lat, reqs[r].stations[i].lon)

\* the stations of the request's list within the origin radius that have
\* capacity
Eligible(r) ==
    { i \in 1..Len(reqs[r].stations) :
        /\ DistanceToOrigin(r, i) <= ORIGIN_SEARCH_RADIUS_M * CmPerM
        /\ reqs[r].stations[i].capacity > 0 }

\* the place in the request's list of the station a candidate was made of
CatalogIndex(r, c) ==
    CHOOSE i \in 1..Len(reqs[r].stations) : reqs[r].stations[i].id = c.station_id

\* equal scores keep the catalog order
TiesInCatalogOrder(r, xs) ==
    \A i, j \in 1..Len(xs) :
        i < j /\ xs[i].score = xs[j].score =>
            CatalogIndex(r, xs[i]) < CatalogIndex(r, xs[j])

\* C3: a successful response has at most limit results, count is
\* min(number of candidates, limit) and the length of results, the results
\* are in descending score order, and equal scores are in catalog order.
C3_TopResultsStableDescending ==
    \A r \in Requests :
        Answered(r) =>
            LET res == Response(r).results
            IN  /\ Len(res) <= reqs[r].in.limit
                /\ Response(r).count = Min(Cardinality(Eligible(r)), reqs[r].in.limit)
                /\ Response(r).count = Len(res)
                /\ \A i, j \in 1..Len(res) : i < j => res[i].score >= res[j].score
                /\ TiesInCatalogOrder(r, res)

\* C3, its case: three candidates, limit 2, the two results tied and the
\* first station of the catalog ranked below them.
C3_TieKeptFirstStationDropped ==
    \E r \in Requests :
        /\ Answered(r)
        /\ Cardinality(Eligible(r)) = 3
        /\ reqs[r].in.limit = 2
        /\ Response(r).count = 2
        /\ Response(r).results[1].score = Response(r).results[2].score
        /\ CatalogIndex(r, Response(r).results[1]) = 2

\* the score of a candidate before it is rounded
FullScore(r, c) ==
    score_station_candidate(reqs[r].stations[CatalogIndex(r, c)],
                            reqs[r].o.lat, reqs[r].o.lon,
                            reqs[r].d.lat, reqs[r].d.lon,
                            reqs[r].dest_dock_score)

\* C4: ranking compares the scores at full precision: a candidate with a
\* higher unrounded score is placed before one with a lower unrounded score,
\* also when both round to the same four decimals.
C4_RankedByFullPrecision ==
    \A r \in Requests :
        Answered(r) =>
            \A i, j \in 1..Len(reqs[r].candidates) :
                i < j => FullScore(r, reqs[r].candidates[i])
                         >= FullScore(r, reqs[r].candidates[j])

\* C8: the candidates are exactly the stations within the origin radius
\* (the radius included) that have capacity > 0, each once, equal scores in
\* catalog order; every result is one of them.
C8_CandidatesAreEligibleStations ==
    \A r \in Requests :
        Answered(r) =>
            LET cs  == reqs[r].candidates
                res == Response(r).results
            IN  /\ { cs[k].station_id : k \in 1..Len(cs) } =
                       { reqs[r].stations[i].id : i \in Eligible(r) }
                /\ Len(cs) = Cardinality(Eligible(r))
                /\ TiesInCatalogOrder(r, cs)
                /\ \A k \in 1..Len(res) :
                       CatalogIndex(r, res[k]) \in Eligible(r)

\* C8, its case: a station exactly at the radius among the results, one
\* beyond the radius, one at the origin without capacity.
C8_AtRadiusBeyondAndNoCapacity ==
    \E r \in Requests :
        /\ Answered(r)
        /\ \E i, j, k \in 1..Len(reqs[r].stations) :
             /\ DistanceToOrigin(r, i) = ORIGIN_SEARCH_RADIUS_M * CmPerM
             /\ \E n \in 1..Len(Response(r).results) :
                    Response(r).results[n].station_id = reqs[r].stations[i].id
             /\ DistanceToOrigin(r, j) > ORIGIN_SEARCH_RADIUS_M * CmPerM
             /\ DistanceToOrigin(r, k) = 0
             /\ reqs[r].stations[k].capacity = 0

C6_FailedOrEmptyIs503 ==
    \A r \in Requests :
        /\ Done(r)
        /\ \E i \in 1..Len(reqs[r].fetched) :
             ~reqs[r].fetched[i].ok \/ reqs[r].fetched[i].data = <<>>
        => /\ Response(r).status = 503
           /\ Response(r).results = <<>>

\* C10: best_dock_score_near_dest returns the maximum of
\* clamp(docks_available / capacity, 0, 1) (0 when capacity <= 0) over the
\* stations within the radius_m passed (the default when none is passed),
\* the radius included, for every radius_m >= 0; 0 when there is none.
C10_MaxRatioWithinGivenRadius ==
    call # None =>
        LET c      == call[1]
            radius == IF c.radius_m = None THEN DEST_STATION_RADIUS_M
                      ELSE c.radius_m[1]
            within == { i \in 1..Len(c.stations) :
                          Abs(c.stations[i].lat - c.dest_lat) <= radius * CmPerM }
            ratio(i) ==
                IF c.stations[i].capacity <= 0 THEN 0
                ELSE Max(0, Min(Scale, (c.stations[i].docks_available * Scale)
                                        \div c.stations[i].capacity))
        IN  /\ c.result \in 0..Scale
            /\ IF within = {} THEN c.result = 0
               ELSE /\ \E i \in within : c.result = ratio(i)
                    /\ \A i \in within : c.result >= ratio(i)

=============================================================================
